---- MODULE Spec2Model ----
(***************************************************************************)
(* Model of app.py: the PTS ranking crawl (crawl_until_below_threshold),   *)
(* the TDnet disclosure loader/tagger/join (attach_disclosures) and the    *)
(* button handler that runs them.                                          *)
(*                                                                         *)
(* Conventions.  Text is a sequence of one-character strings.  Python's    *)
(* None is NoneText for a text value and <<>> for an optional number or    *)
(* date; a present number x is <<x>>, a present date is <<y, m, d>>.       *)
(* Table cells hold the result of _to_int / _to_float_pct on their text    *)
(* (percentages are whole numbers here).  The day tags "当日"/"前日" are   *)
(* written "today"/"yesterday".                                            *)
(***************************************************************************)
EXTENDS Integers, Sequences, FiniteSets, TLC

\* --------------------------------------------------------------- bounds
\* largest page-count ceiling the user enters
MaxPagesBound == 4
\* longest disclosure payload with free code / url / pubdate per item
MaxRich == 3
\* length of the long single-purpose payloads (distinct urls)
MaxNarrow == 6

\* --------------------------------------------------------------- text
NoneText == <<"None">>

Digits == {"0", "1", "2", "3", "4", "5", "6", "7", "8", "9"}

IsDigit(c) == c \in Digits

DigitVal(c) ==
    CASE c = "0" -> 0 [] c = "1" -> 1 [] c = "2" -> 2 [] c = "3" -> 3
      [] c = "4" -> 4 [] c = "5" -> 5 [] c = "6" -> 6 [] c = "7" -> 7
      [] c = "8" -> 8 [] c = "9" -> 9

RECURSIVE LStrip(_)
LStrip(s) == IF s # <<>> /\ Head(s) = " " THEN LStrip(Tail(s)) ELSE s

RECURSIVE RStrip(_)
RStrip(s) ==
    IF s # <<>> /\ s[Len(s)] = " " THEN RStrip(SubSeq(s, 1, Len(s) - 1)) ELSE s

\* str.strip()
Strip(s) == RStrip(LStrip(s))

\* str.lower(), on the letters the inputs use
LowerChar(c) ==
    CASE c = "N" -> "n" [] c = "A" -> "a" [] OTHER -> c

Lower(s) == [i \in 1..Len(s) |-> LowerChar(s[i])]

IsAllDigits(s) == s # <<>> /\ \A i \in 1..Len(s) : IsDigit(s[i])

\* _safe_text
SafeText(x) ==
    IF x = NoneText THEN <<>>
    ELSE LET s == Strip(x)
         IN  IF Lower(s) = <<"n", "a", "n">> THEN <<>> ELSE s

\* str.zfill(width)
ZFill(s, width) ==
    LET pad == [i \in 1..(width - Len(s)) |-> "0"]
    IN  IF Len(s) >= width THEN s
        ELSE IF s # <<>> /\ Head(s) \in {"+", "-"}
             THEN <<Head(s)>> \o pad \o Tail(s)
             ELSE pad \o s

\* _normalize_company_code
NormalizeCompanyCode(raw) ==
    LET s == IF raw = NoneText THEN <<>> ELSE Strip(raw)
        digits == SelectSeq(s, IsDigit)
    IN  IF Len(s) = 5 /\ s[5] = "0" /\ IsAllDigits(SubSeq(s, 1, 4))
        THEN SubSeq(s, 1, 4)
        ELSE IF Len(digits) >= 4 THEN SubSeq(digits, 1, 4) ELSE digits

\* --------------------------------------------------------------- dates
Num2(s, i) == DigitVal(s[i]) * 10 + DigitVal(s[i + 1])

Num4(s, i) == Num2(s, i) * 100 + Num2(s, i + 2)

IsLeap(y) == (y % 4 = 0 /\ y % 100 # 0) \/ y % 400 = 0

DaysInMonth(y, m) ==
    IF m = 2 THEN (IF IsLeap(y) THEN 29 ELSE 28)
    ELSE IF m \in {4, 6, 9, 11} THEN 30 ELSE 31

\* datetime.date(y, m, d) inside try/except: <<>> when it raises
MakeDate(y, m, d) ==
    IF y >= 1 /\ m \in 1..12 /\ d >= 1 /\ d <= DaysInMonth(y, m)
    THEN <<y, m, d>> ELSE <<>>

DigitsAt(s, i, n) == i + n - 1 <= Len(s) /\ \A k \in i..(i + n - 1) : IsDigit(s[k])

\* (\d{4})[-/](\d{2})[-/](\d{2}) matches at position i
SepMatchAt(s, i) ==
    /\ i + 9 <= Len(s)
    /\ DigitsAt(s, i, 4) /\ s[i + 4] \in {"-", "/"}
    /\ DigitsAt(s, i + 5, 2) /\ s[i + 7] \in {"-", "/"}
    /\ DigitsAt(s, i + 8, 2)

\* (\d{4})(\d{2})(\d{2}) matches at position i
PlainMatchAt(s, i) == DigitsAt(s, i, 8)

Least(S) == CHOOSE x \in S : \A y \in S : x <= y

\* _extract_date_from_pubdate
ExtractDateFromPubdate(pubdate) ==
    LET s   == SafeText(pubdate)
        sep == {i \in 1..Len(s) : SepMatchAt(s, i)}
        pln == {i \in 1..Len(s) : PlainMatchAt(s, i)}
    IN  IF s = <<>> THEN <<>>
        ELSE IF sep # {}
             THEN LET i == Least(sep)
                  IN  MakeDate(Num4(s, i), Num2(s, i + 5), Num2(s, i + 8))
        ELSE IF pln # {}
             THEN LET i == Least(pln)
                  IN  MakeDate(Num4(s, i), Num2(s, i + 4), Num2(s, i + 6))
        ELSE <<>>

\* d1 < d2 on dates
DateLess(d1, d2) ==
    \/ d1[1] < d2[1]
    \/ d1[1] = d2[1] /\ d1[2] < d2[2]
    \/ d1[1] = d2[1] /\ d1[2] = d2[2] /\ d1[3] < d2[3]

MaxDate(S) == CHOOSE d \in S : \A e \in S : e = d \/ DateLess(e, d)

\* ------------------------------------------- attach_disclosures: loader
\* A JSON value under a top-level key: absent/null, a list, or anything else.
JAbsent == [t |-> "absent", v |-> <<>>]

JOther == [t |-> "other", v |-> <<>>]

JList(items) == [t |-> "list", v |-> items]

\* The decoded payload: a JSON object with its "items"/"result" members, or
\* a bare JSON list.
JDict(items, result) == [kind |-> "dict", items |-> items, result |-> result, list |-> <<>>]

JBareList(items) == [kind |-> "list", items |-> JAbsent, result |-> JAbsent, list |-> items]

\* data.get(...) on a list raises AttributeError
FetchRaises(data) == data.kind # "dict"

\* items = data.get("items"); if None: data.get("result"); if None: data;
\* if not a list: []
FetchItems(data) ==
    IF data.items.t # "absent"
    THEN (IF data.items.t = "list" THEN data.items.v ELSE <<>>)
    ELSE IF data.result.t # "absent"
         THEN (IF data.result.t = "list" THEN data.result.v ELSE <<>>)
         ELSE <<>>

\* one row of _fetch
FetchRow(it) ==
    [code         |-> ZFill(SafeText(NormalizeCompanyCode(it.company_code)), 4),
     source_tag   |-> "recent",
     title        |-> SafeText(it.title),
     document_url |-> SafeText(it.document_url),
     pubdate      |-> SafeText(it.pubdate)]

\* _fetch, after the payload is decoded
FetchRows(data) ==
    LET items == FetchItems(data)
    IN  [i \in 1..Len(items) |-> FetchRow(items[i])]

\* td["code"] = ...zfill(4) and the three _safe_text columns
CleanRow(r) ==
    [r EXCEPT !.code = ZFill(SafeText(r.code), 4),
              !.document_url = SafeText(r.document_url),
              !.title = SafeText(r.title),
              !.pubdate = SafeText(r.pubdate)]

\* td[(td["code"] != "") & (td["document_url"] != "")]
KeepRow(r) == r.code # <<>> /\ r.document_url # <<>>

\* td["pub_date_only"] = td["pubdate"].apply(_extract_date_from_pubdate)
WithDate(r) ==
    [code |-> r.code, source_tag |-> r.source_tag, title |-> r.title,
     document_url |-> r.document_url, pubdate |-> r.pubdate,
     pub_date_only |-> ExtractDateFromPubdate(r.pubdate)]

SameKey(a, b) == a.code = b.code /\ a.document_url = b.document_url

\* keep="last"
DupKeepsLast(rows, i) == \A j \in (i + 1)..Len(rows) : ~SameKey(rows[j], rows[i])

\* keep="first": a row stays unless an earlier row has its key
DupKeepsRow(rows, i) == \A j \in 1..(i - 1) : ~SameKey(rows[j], rows[i])

RECURSIVE PickRows(_, _, _)
PickRows(rows, i, acc) ==
    IF i > Len(rows) THEN acc
    ELSE PickRows(rows, i + 1,
                  IF DupKeepsRow(rows, i) THEN Append(acc, rows[i]) ELSE acc)

\* td.drop_duplicates(subset=["code", "document_url"], keep="first")
DropDuplicates(rows) == PickRows(rows, 1, <<>>)

\* lines 134-143; an empty frame is left as it is
LoadRows(data) ==
    LET td0 == FetchRows(data)
        cleaned == [i \in 1..Len(td0) |-> CleanRow(td0[i])]
        kept == SelectSeq(cleaned, KeepRow)
        dated == [i \in 1..Len(kept) |-> WithDate(kept[i])]
    IN  IF Len(td0) > 0 THEN DropDuplicates(dated) ELSE <<>>

\* ------------------------------------------- attach_disclosures: tagger
UniqDates(td) == {td[i].pub_date_only : i \in 1..Len(td)} \ {<<>>}

\* uniq[0] of the dates sorted newest first, <<>> for None
MaxDateOf(td) == IF UniqDates(td) # {} THEN MaxDate(UniqDates(td)) ELSE <<>>

\* uniq[-1]: the oldest date instead of the second newest
PrevDateOldest(td) ==
    LET rest == UniqDates(td) \ {MaxDateOf(td)}
    IN  IF rest # {} THEN CHOOSE d \in rest : \A e \in rest : e = d \/ DateLess(d, e)
        ELSE <<>>

\* uniq[1]
PrevDateOf(td) ==
    LET rest == UniqDates(td) \ {MaxDateOf(td)}
    IN  IF rest # {} THEN MaxDate(rest) ELSE <<>>

\* _day_tag
DayTag(d, max_date, prev_date) ==
    IF d = <<>> THEN ""
    ELSE IF max_date # <<>> /\ d = max_date THEN "today"
    ELSE IF prev_date # <<>> /\ d = prev_date THEN "yesterday"
    ELSE ""

WithTag(r, max_date, prev_date) ==
    [code |-> r.code, source_tag |-> r.source_tag, title |-> r.title,
     document_url |-> r.document_url, pubdate |-> r.pubdate,
     pub_date_only |-> r.pub_date_only,
     day_tag |-> DayTag(r.pub_date_only, max_date, prev_date)]

\* td["day_tag"] = td["pub_date_only"].apply(_day_tag)
TagRows(td) ==
    LET max_date == MaxDateOf(td)
        prev_date == PrevDateOf(td)
    IN  [i \in 1..Len(td) |-> WithTag(td[i], max_date, prev_date)]

\* ------------------------------------------- attach_disclosures: join
\* _rank
Rank(tag) == IF tag = "today" THEN 0 ELSE IF tag = "yesterday" THEN 1 ELSE 9

\* _decorate_title; the two marker glyphs and the placeholder are one token each
DecorateTitle(day_tag, title) ==
    LET t == SafeText(title)
        prefix == IF day_tag = "today" THEN <<"[blue]", " ">>
                  ELSE IF day_tag = "yesterday" THEN <<"[yellow]", " ">>
                  ELSE <<>>
    IN  IF t = <<>> THEN prefix \o <<"(no title)">> ELSE prefix \o t

\* a < b on strings of digits
RECURSIVE TextLess(_, _)
TextLess(a, b) ==
    IF b = <<>> THEN FALSE
    ELSE IF a = <<>> THEN TRUE
    ELSE IF Head(a) # Head(b) THEN DigitVal(Head(a)) < DigitVal(Head(b))
    ELSE TextLess(Tail(a), Tail(b))

\* the sort key ["code", "rank"]: a strictly before b
KeyLess(a, b) ==
    \/ TextLess(a.code, b.code)
    \/ a.code = b.code /\ Rank(a.day_tag) < Rank(b.day_tag)

\* an unstable order: x goes before the rows of equal key
InsertRowBeforeEqual(x, s) ==
    LET k == Cardinality({i \in 1..Len(s) : KeyLess(s[i], x)})
    IN  SubSeq(s, 1, k) \o <<x>> \o SubSeq(s, k + 1, Len(s))

\* x goes after every row whose key is not greater than its own
InsertRow(x, s) ==
    LET k == Cardinality({i \in 1..Len(s) : ~KeyLess(x, s[i])})
    IN  SubSeq(s, 1, k) \o <<x>> \o SubSeq(s, k + 1, Len(s))

RECURSIVE SortFrom(_, _, _)
SortFrom(rows, i, acc) ==
    IF i > Len(rows) THEN acc ELSE SortFrom(rows, i + 1, InsertRow(rows[i], acc))

\* td2.sort_values(by=["code", "rank"]): equal keys keep their order
SortValues(rows) == SortFrom(rows, 1, <<>>)

\* the tuple appended to by_code[c]
ByCodeEntry(r) ==
    [day_tag |-> r.day_tag,
     title_text |-> DecorateTitle(r.day_tag, r.title),
     url |-> SafeText(r.document_url)]

RowCode(r) == ZFill(SafeText(r.code), 4)

\* by_code after the loop over td2.iterrows()
ByCode(td) ==
    LET td2 == SortValues(td)
        codes == {RowCode(td2[i]) : i \in 1..Len(td2)}
    IN  [c \in codes |->
            LET mine == SelectSeq(td2, LAMBDA r : RowCode(r) = c)
            IN  [i \in 1..Len(mine) |-> ByCodeEntry(mine[i])]]

\* by_code.get(c, [])
ByCodeGet(by_code, c) == IF c \in DOMAIN by_code THEN by_code[c] ELSE <<>>

\* _get_item
GetItem(by_code, c, i) ==
    LET items == ByCodeGet(by_code, c)
    IN  IF i < Len(items)
        THEN [title |-> items[i + 1].title_text, url |-> items[i + 1].url]
        ELSE [title |-> <<>>, url |-> <<>>]

\* the slice bound of the detail list, [:5]
TopN == 5

\* _top5
Top5(by_code, c) ==
    LET all == ByCodeGet(by_code, c)
        items == SubSeq(all, 1, IF Len(all) < TopN THEN Len(all) ELSE TopN)
    IN  [i \in 1..Len(items) |-> [title |-> items[i].title_text, url |-> items[i].url]]

\* the count taken from the truncated list
OutRowCapped(e, by_code) ==
    LET c == ZFill(Strip(e.code), 4)
    IN  [code |-> c, pct |-> e.pct, volume |-> e.volume,
         n_disclosures |-> Len(Top5(by_code, c)),
         titles |-> [i \in 1..3 |-> GetItem(by_code, c, i - 1)],
         top5 |-> Top5(by_code, c)]

\* one row of df_out
OutRow(e, by_code) ==
    LET c == ZFill(Strip(e.code), 4)
    IN  [code |-> c, pct |-> e.pct, volume |-> e.volume,
         n_disclosures |-> Len(ByCodeGet(by_code, c)),
         titles |-> [i \in 1..3 |-> GetItem(by_code, c, i - 1)],
         top5 |-> Top5(by_code, c)]

\* lines 222-245
DfOut(df_in, by_code) == [i \in 1..Len(df_in) |-> OutRow(df_in[i], by_code)]


\* ------------------------------------------------------- Kabutan PTS page
\* A served page: whether "div.gray-sticky-table table" and its tbody exist,
\* and the tr elements of the tbody.  A tr has the text of its th (NoneText
\* without a th), its number of td cells, and the values _to_float_pct and
\* _to_int give for the third and fourth cell.
Html(table, tbody, trs) == [table |-> table, tbody |-> tbody, trs |-> trs]

Tr(th, ntd, pct, volume) == [th |-> th, ntd |-> ntd, pct |-> pct, volume |-> volume]

\* re.search(r"(\d{4})", th_text): <<>> without a match
SearchCode(th_text) ==
    LET hits == {i \in 1..Len(th_text) : DigitsAt(th_text, i, 4)}
    IN  IF hits = {} THEN <<>> ELSE SubSeq(th_text, Least(hits), Least(hits) + 3)

\* the rows a tr contributes: none when it is skipped
TrRows(tr) ==
    IF tr.th = NoneText \/ tr.ntd < 4 THEN <<>>
    ELSE IF SearchCode(Strip(tr.th)) = <<>> THEN <<>>
    ELSE <<[code |-> SearchCode(Strip(tr.th)), pct |-> tr.pct, volume |-> tr.volume]>>

RECURSIVE ParseTrs(_)
ParseTrs(trs) == IF trs = <<>> THEN <<>> ELSE TrRows(Head(trs)) \o ParseTrs(Tail(trs))

\* parse_pts_page: the rows of the frame (none for pd.DataFrame())
ParsePtsPage(html) ==
    IF ~html.table THEN <<>>
    ELSE IF ~html.tbody THEN <<>>
    ELSE ParseTrs(html.trs)

\* df["pct"].max(skipna=True) turned into mx: <<>> for None
MaxPct(rows) ==
    LET vals == {rows[i].pct[1] : i \in {k \in 1..Len(rows) : rows[k].pct # <<>>}}
    IN  IF vals = {} THEN <<>>
        ELSE <<CHOOSE x \in vals : \A y \in vals : y <= x>>

\* the comparison written <= : a page whose maximum equals the threshold stops
StopsAfterAtThreshold(mx, pct_threshold) == mx = <<>> \/ mx[1] <= pct_threshold

\* if mx is None or mx < pct_threshold: break
StopsAfter(mx, pct_threshold) == mx = <<>> \/ mx[1] < pct_threshold

\* range(1, max_pages + 2): one page too many
HasNextPageOffByOne(p, max_pages) == p + 1 <= max_pages + 1

\* for page in range(1, max_pages + 1): whether the loop has another page
HasNextPage(p, max_pages) == p + 1 <= max_pages

\* last_page set only after the empty-page break
LastPageAfterBreak(p, rows, last) == IF Len(rows) = 0 THEN last ELSE p

\* last_page = page, set before the page is looked at
LastPageAfter(p, rows, last) == p

\* whether the loop goes on to the next page after this one
Continues(rows, pct_threshold, p, max_pages) ==
    /\ Len(rows) # 0
    /\ ~StopsAfter(MaxPct(rows), pct_threshold)
    /\ HasNextPage(p, max_pages)

RECURSIVE Concat(_)
Concat(frames) == IF frames = <<>> THEN <<>> ELSE Head(frames) \o Concat(Tail(frames))

\* the frame crawl returns: pd.DataFrame() has no columns
CrawlResult(frames) ==
    IF Len(frames) = 0 THEN [cols |-> FALSE, rows |-> <<>>]
    ELSE [cols |-> TRUE, rows |-> Concat(frames)]

\* df.dropna(subset=["pct", "volume"]) raises KeyError without the columns
DropnaRaises(frame) == ~frame.cols

\* lines 380-381
FilterRows(rows, pct_min, vol_min) ==
    SelectSeq(rows, LAMBDA r : /\ r.pct # <<>> /\ r.volume # <<>>
                               /\ r.pct[1] >= pct_min /\ r.volume[1] >= vol_min)

\* ------------------------------------------------------------- inputs
ThA == <<"T", " ", "7", "2", "0", "3">>

ThB == <<"1", "3", "0", "1", " ", "S">>

ThNoCode == <<"T", "1", "2">>

Vol(n) == <<n>>

\* single-row pages: every percentage, a row without volume, the skipped rows
TrsWide ==
    {Tr(ThA, 4, p, Vol(5000)) : p \in {<<>>, <<3>>, <<9>>, <<10>>, <<15>>, <<20>>}}
    \cup {Tr(ThB, 5, <<9>>, <<>>)}
    \cup {Tr(NoneText, 4, <<20>>, Vol(5000)), Tr(ThA, 3, <<20>>, Vol(5000)),
          Tr(ThNoCode, 4, <<20>>, Vol(5000))}

\* two-row pages: a skipped row, an absent percentage, a low volume, the
\* maximum in either row
PairPages ==
    {Html(TRUE, TRUE, <<Tr(NoneText, 4, <<20>>, Vol(5000)), Tr(ThA, 4, <<>>, Vol(5000))>>),
     Html(TRUE, TRUE, <<Tr(ThA, 4, <<>>, Vol(5000)), Tr(ThA, 4, <<>>, Vol(500))>>),
     Html(TRUE, TRUE, <<Tr(ThA, 4, <<>>, Vol(5000)), Tr(ThB, 4, <<20>>, Vol(5000))>>),
     Html(TRUE, TRUE, <<Tr(ThB, 4, <<20>>, Vol(500)), Tr(ThA, 4, <<9>>, Vol(5000))>>),
     Html(TRUE, TRUE, <<Tr(ThNoCode, 4, <<20>>, Vol(5000)), Tr(ThA, 3, <<20>>, Vol(5000))>>)}

Pages ==
    {Html(FALSE, FALSE, <<>>), Html(TRUE, FALSE, <<>>), Html(TRUE, TRUE, <<>>)}
    \cup {Html(TRUE, TRUE, <<t>>) : t \in TrsWide}
    \cup PairPages

NoHtml == Html(FALSE, FALSE, <<>>)

PctInputs == {<<>>, <<10>>}

VolInputs == {<<>>, <<1000>>}

PageInputs == {<<>>} \cup {<<n>> : n \in 0..MaxPagesBound}

Item(code, title, url, pubdate) ==
    [company_code |-> code, title |-> title, document_url |-> url, pubdate |-> pubdate]

U(i) == <<"u", CASE i = 1 -> "1" [] i = 2 -> "2" [] i = 3 -> "3" [] i = 4 -> "4"
                 [] i = 5 -> "5" [] i = 6 -> "6" [] i = 7 -> "7" [] OTHER -> "8">>

T(i) == <<"t">> \o Tail(U(i))

D10 == <<"2", "0", "2", "4", "-", "0", "5", "-", "1", "0", " ", "1", "5", ":", "0", "0">>

D09 == <<"2", "0", "2", "4", "/", "0", "5", "/", "0", "9">>

D08 == <<"2", "0", "2", "4", "0", "5", "0", "8">>

DBad == <<"2", "0", "2", "4", "-", "0", "2", "-", "3", "0">>

CodeA == <<"7", "2", "0", "3">>

CodeA0 == <<" ", "7", "2", "0", "3", "0">>

CodeB == <<"1", "3", "0", "1">>

CodeNone == <<"a", "b", "c">>

\* payloads with free code / url / pubdate per item; the title tells the
\* position in the feed
RichCodes == {CodeA0, CodeB, CodeNone}

RichUrls == {<<>>, U(1)}

RichDates == {NoneText, D10, D09}

RichPayload(n, c, u, d) ==
    JDict(JList([i \in 1..n |-> Item(c[i], T(i), u[i], d[i])]), JAbsent)

\* long payloads: one url per position, two codes of which one is rare
NarrowDates == {D10, D09, D08, DBad}

NarrowPayload(b, d) ==
    JDict(JList([i \in 1..MaxNarrow |->
                    Item(IF i = b THEN CodeB ELSE CodeA, T(i), U(i), d[i])]), JAbsent)

\* the payloads a run of the handler meets
RunFeeds ==
    {JDict(JList(<<Item(CodeA0, T(1), U(1), D10), Item(CodeB, <<>>, U(2), D09)>>), JAbsent),
     JDict(JAbsent, JList(<<Item(CodeA, T(1), U(1), D10)>>)),
     JDict(JAbsent, JAbsent),
     JDict(JOther, JList(<<Item(CodeA, T(1), U(1), D10)>>)),
     JBareList(<<Item(CodeA, T(1), U(1), D10)>>)}

Eq(code) == [code |-> code, pct |-> <<20>>, volume |-> Vol(5000)]

\* the equities attach_disclosures is called with on its own
EquityInputs ==
    {<<Eq(CodeB), Eq(CodeA), Eq(<<"0", "0", "0", "0">>), Eq(<<"9", "9", "9", "9">>), Eq(CodeA)>>}

\* ------------------------------------------------------------- state
VARIABLES
    pc,            \* where the button handler is
    pct_min_val,   \* validated inputs, <<>> until parsed
    vol_min_val,
    max_pages_val,
    page,          \* the loop variable of the crawl
    all_df,        \* the frames appended so far
    last_page,
    requests,      \* every requests.get made, with what came back
    df,            \* what crawl returned: <<>> or <<frame>>
    df2,           \* the filtered rows handed to attach_disclosures
    td,            \* the retained, tagged disclosure rows
    by_code,
    df_out,        \* what attach_disclosures returned: <<>> or <<rows>>
    shown,         \* st.dataframe: <<>> or <<rows>>
    errors         \* the st.error messages, by exception

vars == <<pc, pct_min_val, vol_min_val, max_pages_val, page, all_df, last_page,
          requests, df, df2, td, by_code, df_out, shown, errors>>

crawlVars == <<page, all_df, last_page, df>>

inputVars == <<pct_min_val, vol_min_val, max_pages_val>>

attachVars == <<td, by_code, df_out>>

Request(target, p, ok, html, data) ==
    [target |-> target, page |-> p, ok |-> ok, html |-> html, data |-> data]

NoData == JDict(JAbsent, JAbsent)

\* the failure is swallowed and the handler goes on to the table
FailSwallowed(e) == pc' = "render" /\ errors' = errors

\* except Exception as e: st.error(...)
Fail(e) == pc' = "error" /\ errors' = Append(errors, e)

Init ==
    /\ pc = "idle"
    /\ pct_min_val = <<>> /\ vol_min_val = <<>> /\ max_pages_val = <<>>
    /\ page = 0 /\ all_df = <<>> /\ last_page = 0
    /\ requests = <<>>
    /\ df = <<>> /\ df2 = <<>>
    /\ td = <<>> /\ by_code = <<>> /\ df_out = <<>>
    /\ shown = <<>> /\ errors = <<>>

\* lines 361-372: the button is pressed and the three inputs are parsed
Validate ==
    /\ pc = "idle"
    /\ \E p \in PctInputs, v \in VolInputs, m \in PageInputs :
          IF p = <<>> \/ v = <<>> \/ m = <<>> \/ m[1] <= 0
          THEN /\ Fail("ValueError")
               /\ UNCHANGED <<inputVars, crawlVars>>
          ELSE /\ pct_min_val' = p /\ vol_min_val' = v /\ max_pages_val' = m
               /\ page' = 1 /\ all_df' = <<>> /\ last_page' = 0
               /\ pc' = "crawl"
               /\ UNCHANGED <<df, errors>>
    /\ UNCHANGED <<requests, df2, attachVars, shown>>

\* fetch_pts_page raises: timeout or raise_for_status
CrawlFetchFails ==
    /\ pc = "crawl"
    /\ requests' = Append(requests, Request("pts", page, FALSE, NoHtml, NoData))
    /\ Fail("HTTPError")
    /\ UNCHANGED <<inputVars, crawlVars, df2, attachVars, shown>>

\* one turn of the loop of crawl_until_below_threshold, and its return
CrawlPage ==
    /\ pc = "crawl"
    /\ \E html \in Pages :
          LET rows == ParsePtsPage(html)
              frames == IF Len(rows) = 0 THEN all_df ELSE Append(all_df, rows)
              more == Continues(rows, pct_min_val[1], page, max_pages_val[1])
          IN  /\ requests' = Append(requests, Request("pts", page, TRUE, html, NoData))
              /\ last_page' = LastPageAfter(page, rows, last_page)
              /\ all_df' = frames
              /\ IF more
                 THEN page' = page + 1 /\ UNCHANGED <<pc, df>>
                 ELSE /\ df' = <<CrawlResult(frames)>>
                      /\ pc' = "filter"
                      /\ UNCHANGED page
    /\ UNCHANGED <<inputVars, df2, attachVars, shown, errors>>

\* lines 380-381
Filter ==
    /\ pc = "filter"
    /\ IF DropnaRaises(df[1])
       THEN Fail("KeyError") /\ UNCHANGED df2
       ELSE /\ df2' = FilterRows(df[1].rows, pct_min_val[1], vol_min_val[1])
            /\ pc' = "attach"
            /\ UNCHANGED errors
    /\ UNCHANGED <<inputVars, crawlVars, requests, attachVars, shown>>

\* requests.get in _fetch raises: timeout or raise_for_status
AttachFetchFails ==
    /\ pc = "attach"
    /\ requests' = Append(requests, Request("tdnet", 0, FALSE, NoHtml, NoData))
    /\ Fail("HTTPError")
    /\ UNCHANGED <<inputVars, crawlVars, df2, attachVars, shown>>

\* attach_disclosures(df2) when the endpoint answers with data
AttachWith(data) ==
    /\ pc = "attach"
    /\ requests' = Append(requests, Request("tdnet", 0, TRUE, NoHtml, data))
    /\ IF FetchRaises(data)
       THEN Fail("AttributeError") /\ UNCHANGED attachVars
       ELSE /\ td' = TagRows(LoadRows(data))
            /\ by_code' = ByCode(td')
            /\ df_out' = <<DfOut(df2, by_code')>>
            /\ pc' = "render"
            /\ UNCHANGED errors
    /\ UNCHANGED <<inputVars, crawlVars, df2, shown>>

AttachDisclosures == pc = "attach" /\ \E data \in RunFeeds : AttachWith(data)

\* lines 385-441: the table and the detail lists are written
Render ==
    /\ pc = "render"
    /\ shown' = df_out
    /\ pc' = "done"
    /\ UNCHANGED <<inputVars, crawlVars, requests, df2, attachVars, errors>>

Next ==
    \/ Validate
    \/ CrawlFetchFails
    \/ CrawlPage
    \/ Filter
    \/ AttachFetchFails
    \/ AttachDisclosures
    \/ Render

Spec == Init /\ [][Next]_vars

\* attach_disclosures called on its own, on the wider payloads
InitAttach ==
    /\ pc = "attach"
    /\ pct_min_val = <<10>> /\ vol_min_val = <<1000>> /\ max_pages_val = <<1>>
    /\ page = 0 /\ all_df = <<>> /\ last_page = 0
    /\ requests = <<>>
    /\ df = <<>> /\ df2 \in EquityInputs
    /\ td = <<>> /\ by_code = <<>> /\ df_out = <<>>
    /\ shown = <<>> /\ errors = <<>>

AttachRich ==
    /\ pc = "attach"
    /\ \E n \in 0..MaxRich :
          \E c \in [1..n -> RichCodes], u \in [1..n -> RichUrls], d \in [1..n -> RichDates] :
              AttachWith(RichPayload(n, c, u, d))

AttachNarrow ==
    /\ pc = "attach"
    /\ \E b \in {0, 2}, d \in [1..MaxNarrow -> NarrowDates] :
          AttachWith(NarrowPayload(b, d))

NextAttach == AttachRich \/ AttachNarrow

SpecAttach == InitAttach /\ [][NextAttach]_vars

\* ------------------------------------------------------------ the crawl
PtsRequests == SelectSeq(requests, LAMBDA r : r.target = "pts")

\* the rows parse_pts_page gave for the i-th request
RowsOf(i) == IF requests[i].ok THEN ParsePtsPage(requests[i].html) ELSE <<>>

RECURSIVE RowsUpTo(_)
RowsUpTo(n) == IF n = 0 THEN <<>> ELSE RowsUpTo(n - 1) \o RowsOf(n)

IsPts(i) == requests[i].target = "pts"

\* C1: pages are fetched in increasing order from page 1; the rows of every
\* non-empty fetched page are in the result; a page whose maximum changePct
\* is undefined or below the threshold is the last page fetched; a page
\* whose maximum reaches the threshold, below the ceiling, is followed by
\* the fetch of the next page.
C1_CrawlOrderAndStop ==
    /\ \A i \in 1..Len(PtsRequests) : PtsRequests[i].page = i /\ IsPts(i)
    /\ Concat(all_df) = RowsUpTo(Len(PtsRequests))
    /\ df # <<>> => df[1].rows = RowsUpTo(Len(PtsRequests))
    /\ \A i \in 1..Len(PtsRequests) :
          (requests[i].ok /\ RowsOf(i) # <<>>) =>
             LET mx == MaxPct(RowsOf(i))
             IN  /\ (mx = <<>> \/ mx[1] < pct_min_val[1]) =>
                        (i = Len(PtsRequests) /\ pc # "crawl")
                 /\ (mx # <<>> /\ mx[1] >= pct_min_val[1] /\ i < max_pages_val[1]) =>
                        \/ i < Len(PtsRequests)
                        \/ pc = "crawl" /\ page = i + 1

MaxOfPage(i) == MaxPct(RowsOf(i))

\* maxima 20, 15, 9 with threshold 10 and a ceiling of 4: three pages
\* visited, their rows returned, page 4 never asked for
C1_Witness ==
    /\ pc = "filter" /\ max_pages_val = <<4>> /\ pct_min_val = <<10>>
    /\ Len(PtsRequests) = 3 /\ last_page = 3
    /\ MaxOfPage(1) = <<20>> /\ MaxOfPage(2) = <<15>> /\ MaxOfPage(3) = <<9>>
    /\ Len(df[1].rows) = 3

\* C2: the crawl never fetches more than maxPages pages, never a page number
\* above maxPages, never a page twice, returns lastPageVisited <= maxPages,
\* and has left its loop once maxPages pages were fetched.
C2_MaxPagesEnforced ==
    /\ max_pages_val = <<>> => PtsRequests = <<>>
    /\ max_pages_val # <<>> =>
          /\ Len(PtsRequests) <= max_pages_val[1]
          /\ \A i \in 1..Len(PtsRequests) : PtsRequests[i].page \in 1..max_pages_val[1]
          /\ \A i, j \in 1..Len(PtsRequests) :
                PtsRequests[i].page = PtsRequests[j].page => i = j
          /\ last_page <= max_pages_val[1]
          /\ pc = "crawl" => Len(PtsRequests) < max_pages_val[1]

\* every page up to the ceiling reached the threshold and the crawl returned
C2_Witness ==
    /\ pc = "filter" /\ max_pages_val = <<MaxPagesBound>>
    /\ Len(PtsRequests) = MaxPagesBound /\ last_page = MaxPagesBound
    /\ \A i \in 1..MaxPagesBound : MaxOfPage(i) # <<>> /\ MaxOfPage(i)[1] >= pct_min_val[1]

\* C3: a failed fetch (a crawl page or the disclosure feed) is the last
\* request of the run and is not repeated; nothing is returned from the
\* crawl it interrupts, no table is shown, and the run ends in the error
\* outcome with exactly one message.
C3_TransportFailureFatal ==
    \A i \in 1..Len(requests) :
        ~requests[i].ok =>
            /\ i = Len(requests)
            /\ \A j \in 1..(i - 1) :
                  ~(requests[j].target = requests[i].target
                    /\ requests[j].page = requests[i].page)
            /\ pc = "error"
            /\ Len(errors) = 1
            /\ shown = <<>> /\ df_out = <<>>
            /\ requests[i].target = "pts" => df = <<>> /\ df2 = <<>>

\* page 3 fails after two pages with rows were parsed
C3_Witness ==
    /\ Len(requests) = 3 /\ ~requests[3].ok /\ requests[3].page = 3
    /\ Len(all_df) = 2
    /\ pc = "error"

\* C10: a fetched page with zero rows is the last page fetched, adds nothing
\* (the result is the rows of the pages before it, in page order), ends the
\* loop, and is lastPageVisited.
C10_EmptyPageStops ==
    \A i \in 1..Len(PtsRequests) :
        (requests[i].ok /\ RowsOf(i) = <<>>) =>
            /\ i = Len(PtsRequests)
            /\ pc # "crawl"
            /\ last_page = i
            /\ df # <<>> /\ df[1].rows = RowsUpTo(i - 1)

\* page 3 is empty after two pages with rows
C10_Witness ==
    /\ Len(PtsRequests) = 3 /\ requests[3].ok /\ RowsOf(3) = <<>>
    /\ RowsOf(1) # <<>> /\ RowsOf(2) # <<>>
    /\ requests[3].html.table /\ requests[3].html.tbody
    /\ pc = "filter"

\* C9: a run ends in the error outcome only for an invalid input or a
\* transport failure, never for a page without the table/body or rows, nor
\* for a payload without the expected keys, of a bare list, or with a
\* non-list under the keys.
C9_MalformedNeverFatal ==
    pc = "error" => errors[Len(errors)] \in {"ValueError", "HTTPError"}

\* ------------------------------------------------- attach_disclosures
\* the items of the payload the endpoint returned
FeedItems == requests[Len(requests)].data.items.v

\* the indexes of the retained rows of code c, in feed order
Mine(c) == {i \in 1..Len(td) : td[i].code = c}

\* the retained row a detail entry of code c shows
EntryRow(c, entry) == CHOOSE i \in Mine(c) : td[i].document_url = entry.url

\* row a comes before row b: better rank, or equal rank and earlier arrival
ComesBefore(a, b) ==
    \/ Rank(td[a].day_tag) < Rank(td[b].day_tag)
    \/ Rank(td[a].day_tag) = Rank(td[b].day_tag) /\ a < b

Min(a, b) == IF a < b THEN a ELSE b

\* C4: the detail list of every equity holds retained disclosures of its
\* code, a better rank before a worse one and equal ranks in feed order,
\* and it is the first 5 of that order: every disclosure left out comes
\* after every one listed.
C4_TopOrderedStable ==
    pc = "render" =>
        \A k \in 1..Len(df_out[1]) :
            LET o == df_out[1][k]
                top == o.top5
                listed == {EntryRow(o.code, top[j]) : j \in 1..Len(top)}
            IN  /\ \A j \in 1..Len(top) :
                      \E i \in Mine(o.code) : td[i].document_url = top[j].url
                /\ \A j1, j2 \in 1..Len(top) :
                      j1 < j2 => ComesBefore(EntryRow(o.code, top[j1]),
                                             EntryRow(o.code, top[j2]))
                /\ Len(top) = Min(TopN, Cardinality(Mine(o.code)))
                /\ \A i \in Mine(o.code) \ listed : \A a \in listed : ComesBefore(a, i)

\* arrival tags none, today, yesterday, today, ... of one code, more than
\* five in all: the list starts today(1st), today(2nd), yesterday
C4_Witness ==
    /\ pc = "render" /\ Len(td) > TopN
    /\ \A i \in 1..Len(td) : td[i].code = CodeA
    /\ td[1].day_tag = "" /\ td[2].day_tag = "today"
    /\ td[3].day_tag = "yesterday" /\ td[4].day_tag = "today"
    /\ \E k \in 1..Len(df_out[1]) :
          /\ df_out[1][k].code = CodeA
          /\ Len(df_out[1][k].top5) = TopN
          /\ df_out[1][k].top5[1].url = U(2)
          /\ df_out[1][k].top5[2].url = U(4)
          /\ df_out[1][k].top5[3].url = U(3)

\* C5: one output record per input equity row, in the input order with the
\* equity's own fields; disclosureCount is the number of retained rows of
\* its code, uncapped; the detail list has min(5, disclosureCount) entries;
\* an equity without a match gets 0 and an empty list, and no error.
C5_OnePerEquity ==
    (pc # "attach" /\ requests[Len(requests)].ok) =>
        /\ pc = "render" /\ errors = <<>>
        /\ Len(df_out[1]) = Len(df2)
        /\ \A k \in 1..Len(df2) :
              LET o == df_out[1][k]
              IN  /\ o.code = df2[k].code
                  /\ o.pct = df2[k].pct /\ o.volume = df2[k].volume
                  /\ o.n_disclosures = Cardinality(Mine(df2[k].code))
                  /\ Len(o.top5) = Min(TopN, o.n_disclosures)
                  /\ Mine(df2[k].code) = {} => (o.n_disclosures = 0 /\ o.top5 = <<>>)

\* one equity with more than five disclosures, one with none
C5_Witness ==
    /\ pc = "render"
    /\ \E k \in 1..Len(df_out[1]) :
          df_out[1][k].n_disclosures > TopN /\ Len(df_out[1][k].top5) = TopN
    /\ \E k \in 1..Len(df_out[1]) :
          df_out[1][k].n_disclosures = 0 /\ df_out[1][k].top5 = <<>>

\* the defined dates of the batch newer than d
NewerDates(d) ==
    {e \in {td[i].pub_date_only : i \in 1..Len(td)} \ {<<>>} : DateLess(d, e)}

\* C6: a retained row is tagged today iff its date is defined and no date
\* of the batch is newer, yesterday iff its date is defined and exactly one
\* distinct date of the batch is newer, and none in every other case.
C6_RecencyTag ==
    pc = "render" =>
        \A i \in 1..Len(td) :
            LET d == td[i].pub_date_only
                tag == td[i].day_tag
            IN  /\ tag \in {"today", "yesterday", ""}
                /\ tag = "today" <=> (d # <<>> /\ NewerDates(d) = {})
                /\ tag = "yesterday" <=> (d # <<>> /\ Cardinality(NewerDates(d)) = 1)

\* three distinct dates and an undefined one in one batch
C6_Witness ==
    /\ pc = "render"
    /\ \E i \in 1..Len(td) : td[i].day_tag = "today" /\ td[i].pub_date_only = <<2024, 5, 10>>
    /\ \E i \in 1..Len(td) : td[i].day_tag = "yesterday" /\ td[i].pub_date_only = <<2024, 5, 9>>
    /\ \E i \in 1..Len(td) : td[i].day_tag = "" /\ td[i].pub_date_only = <<2024, 5, 8>>
    /\ \E i \in 1..Len(td) : td[i].day_tag = "" /\ td[i].pub_date_only = <<>>

\* the (code, url) key the loader gives an item
ItemKey(it) == <<FetchRow(it).code, FetchRow(it).document_url>>

ItemKeys == [j \in 1..Len(FeedItems) |-> ItemKey(FeedItems[j])]

RowKey(r) == <<r.code, r.document_url>>

\* C7: no two retained rows share (code, documentUrl); every item that
\* passes the empty-field filter has exactly its first occurrence retained,
\* with that occurrence's title and publish date.
C7_DedupKeepsFirst ==
    pc = "render" =>
        LET keys == ItemKeys
            rowKeys == [a \in 1..Len(td) |-> RowKey(td[a])]
        IN  /\ \A a, b \in 1..Len(td) : rowKeys[a] = rowKeys[b] => a = b
            /\ \A a \in 1..Len(td) : \E j \in 1..Len(keys) : keys[j] = rowKeys[a]
            /\ \A j \in 1..Len(keys) :
                  (keys[j][1] # <<>> /\ keys[j][2] # <<>>) =>
                     \E a \in 1..Len(td) :
                        LET first == FeedItems[Least({f \in 1..j : keys[f] = keys[j]})]
                        IN  /\ rowKeys[a] = keys[j]
                            /\ td[a].title = SafeText(first.title)
                            /\ td[a].pubdate = SafeText(first.pubdate)
                            /\ td[a].pub_date_only = ExtractDateFromPubdate(first.pubdate)

\* three items of one code and url, the later ones with another date,
\* collapse to the first
C7_Witness ==
    /\ pc = "render"
    /\ Len(FeedItems) = 3 /\ Len(td) = 1
    /\ ItemKeys[1] = ItemKeys[2] /\ ItemKeys[2] = ItemKeys[3]
    /\ FeedItems[1].pubdate = D09 /\ FeedItems[2].pubdate = D10
    /\ FeedItems[1].company_code = CodeA0
    /\ td[1].title = T(1)

\* C8: every retained row comes from an item whose normalized code and
\* whose document url are both non-empty.
C8_EmptyCodeOrUrlDropped ==
    pc = "render" =>
        \A a \in 1..Len(td) :
            \E j \in 1..Len(FeedItems) :
                /\ NormalizeCompanyCode(FeedItems[j].company_code) # <<>>
                /\ SafeText(FeedItems[j].document_url) # <<>>
                /\ ItemKey(FeedItems[j]) = RowKey(td[a])

====
